---- MODULE Spec2Model ----
(***************************************************************************)
(* ace-sidebar: the incremental content-addressed indexing engine          *)
(* (IndexManager in src/src/extension.ts) and the triggers that start it:  *)
(* the debounced file-save listener, ChatService.runAutoIndex and the lazy *)
(* bootstrap of IndexManager.searchCodebase.                               *)
(* Beside them, on their own: MCPServer.start and stop (src/src/mcp/       *)
(* server.ts) and the message list of the chat view (src/src/views/        *)
(* ChatViewProvider.ts).                                                   *)
(*                                                                         *)
(* Text is a sequence of one-character strings.  A digest is the byte      *)
(* stream fed to SHA-256 (an ideal hash is injective on that stream).      *)
(* One action is one run of JavaScript between two suspension points       *)
(* (await of file I/O, of an HTTP request, of a timer).                    *)
(***************************************************************************)
EXTENDS Integers, Sequences, FiniteSets, TLC

\* ------------------------------------------------------------------ bounds
MaxSaves == 2         \* file saves (bounds the specification of the triggers)
MaxBatchSize == 2     \* config.batchSize ranges over 1..MaxBatchSize
TicksPerDelay == 2    \* clock steps that make up one debounce delay
MaxRetries == 3       \* maxRetries of a call of retryRequest ranges over 0..MaxRetries
MaxLen == 4           \* characters of a content handed to splitFileContent alone
MaxThreshold == 3     \* maxLinesPerBlob of such a call ranges over -1..MaxThreshold
MaxHashLen == 2       \* characters of a content handed to calculateBlobName alone
MaxStarts == 3        \* HTTP servers the calls of MCPServer.start create
MaxMessages == 2      \* messages submitted in the chat view

\* ------------------------------------------------------- program constants
INDEX_DEBOUNCE_DELAY == 500
DefaultRetryDelay == 1000

TickMs == INDEX_DEBOUNCE_DELAY \div TicksPerDelay

\* ---------------------------------------------------------------- universe
FileA == <<"a">>
FileB == <<"b">>
\* the order in which readdir lists the project's files
PathOrder == <<FileA, FileB>>
Paths == {PathOrder[i] : i \in 1..Len(PathOrder)}

OneLine == <<"x">>
TwoLines == <<"x", "\n", "y">>
TwoLinesAlt == <<"z", "\n", "y">>
Contents == {OneLine, TwoLines, TwoLinesAlt}

Procs == {"file", "auto", "search"}
ProjectProcs == {"auto", "search"}

\* ------------------------------------------------------------ small helpers
Min(a, b) == IF a < b THEN a ELSE b
Max(a, b) == IF a > b THEN a ELSE b
Range(s) == {s[i] : i \in 1..Len(s)}
\* Math.ceil(a / b) for a count a >= 0 and a divisor b # 0
CeilDiv(a, b) == IF b > 0 THEN (a + b - 1) \div b ELSE 0 - (a \div (0 - b))

RECURSIVE Flatten(_)
\* Array.prototype.join('') of a list of texts
Flatten(ss) == IF ss = <<>> THEN <<>> ELSE Head(ss) \o Flatten(Tail(ss))

RECURSIVE Dedup(_)
\* [...new Set(s)]: first occurrences, in insertion order
Dedup(s) ==
  IF s = <<>> THEN <<>>
  ELSE LET r == Dedup(SubSeq(s, 1, Len(s) - 1))
           x == s[Len(s)]
       IN IF x \in Range(r) THEN r ELSE Append(r, x)

RECURSIVE SelectSeqBy(_, _)
\* Array.prototype.filter with a membership test
SelectSeqBy(s, keep) ==
  IF s = <<>> THEN <<>>
  ELSE IF Head(s) \in keep THEN <<Head(s)>> \o SelectSeqBy(Tail(s), keep)
       ELSE SelectSeqBy(Tail(s), keep)

DigitChars == <<"0", "1", "2", "3", "4", "5", "6", "7", "8", "9">>
RECURSIVE DigitsOf(_)
\* the decimal text of a number, as a template literal prints it
DigitsOf(n) ==
  IF n < 10 THEN <<DigitChars[n + 1]>>
  ELSE DigitsOf(n \div 10) \o <<DigitChars[(n % 10) + 1]>>

\* ------------------------------------------------------------ pure functions
RECURSIVE ScanLines(_, _, _, _)
\* the scanning loop of splitFileContent: i is the character looked at,
\* start the first character of the line being collected (both 1-based)
ScanLines(content, i, start, lines) ==
  IF i > Len(content)
  THEN IF start <= Len(content)
       THEN Append(lines, SubSeq(content, start, Len(content)))
       ELSE lines
  ELSE IF content[i] = "\n"
       THEN ScanLines(content, i + 1, i + 1, Append(lines, SubSeq(content, start, i)))
       ELSE IF content[i] = "\r"
            THEN IF i + 1 <= Len(content) /\ content[i + 1] = "\n"
                 THEN ScanLines(content, i + 2, i + 2,
                                Append(lines, SubSeq(content, start, i + 1)))
                 ELSE ScanLines(content, i + 1, i + 1,
                                Append(lines, SubSeq(content, start, i)))
            ELSE ScanLines(content, i + 1, start, lines)

SplitLines(content) == ScanLines(content, 1, 1, <<>>)

\* chunk names that count from 0
ChunkPathFromZero(filePath, idx, numChunks) ==
  filePath \o <<"#", "c", "h", "u", "n", "k">> \o DigitsOf(idx - 1)
           \o <<"o", "f">> \o DigitsOf(numChunks)

\* `${filePath}#chunk${chunkIdx + 1}of${numChunks}`; idx is chunkIdx + 1
ChunkPath(filePath, idx, numChunks) ==
  filePath \o <<"#", "c", "h", "u", "n", "k">> \o DigitsOf(idx)
           \o <<"o", "f">> \o DigitsOf(numChunks)

\* the chunk loop of splitFileContent comes to an end: with a threshold of 0
\* and at least one line, numChunks is Infinity and the loop never ends
SplitReturns(content, maxLinesPerBlob) ==
  ~(maxLinesPerBlob = 0 /\ Len(SplitLines(content)) > 0)

\* IndexManager.splitFileContent, where it returns; numChunks is at most 0
\* under a negative threshold, and the chunk loop then runs no round
splitFileContent(filePath, content, maxLinesPerBlob) ==
  LET lines == SplitLines(content)
      totalLines == Len(lines)
      numChunks == CeilDiv(totalLines, maxLinesPerBlob)
  IN IF totalLines <= maxLinesPerBlob
     THEN << [path |-> filePath, content |-> content, sourcePath |-> filePath] >>
     ELSE [chunkIdx \in 1..numChunks |->
             LET startLine == (chunkIdx - 1) * maxLinesPerBlob
                 endLine == Min(startLine + maxLinesPerBlob, totalLines)
             IN [path |-> ChunkPath(filePath, chunkIdx, numChunks),
                 content |-> Flatten(SubSeq(lines, startLine + 1, endLine)),
                 sourcePath |-> filePath]]

\* calculateBlobName: sha256 over the path bytes and then the content bytes
calculateBlobName(filePath, content) == filePath \o content

BlobHash(blob) == calculateBlobName(blob.path, blob.content)

\* ------------------------------------------------------- the index document
EmptyStore == [blob_names |-> <<>>, file_map |-> <<>>]

\* file_map is a JavaScript object: its entries in insertion order
FileMapKeys(fileMap) == {fileMap[i].path : i \in 1..Len(fileMap)}

FileMapHas(fileMap, p) == p \in FileMapKeys(fileMap)

FileMapGet(fileMap, p) ==
  LET i == CHOOSE j \in 1..Len(fileMap) : fileMap[j].path = p
  IN fileMap[i].hashes

RECURSIVE FileMapDelete(_, _)
FileMapDelete(fileMap, p) ==
  IF fileMap = <<>> THEN <<>>
  ELSE IF Head(fileMap).path = p THEN FileMapDelete(Tail(fileMap), p)
       ELSE <<Head(fileMap)>> \o FileMapDelete(Tail(fileMap), p)

\* { ...fileMap, [p]: hashes }: an existing key keeps its place
FileMapPut(fileMap, p, hashes) ==
  IF FileMapHas(fileMap, p)
  THEN [i \in 1..Len(fileMap) |->
          IF fileMap[i].path = p THEN [path |-> p, hashes |-> hashes] ELSE fileMap[i]]
  ELSE Append(fileMap, [path |-> p, hashes |-> hashes])

\* fileMap[p].push(hash), creating the entry at the first push
FileMapPush(fileMap, p, hash) ==
  IF FileMapHas(fileMap, p)
  THEN FileMapPut(fileMap, p, Append(FileMapGet(fileMap, p), hash))
  ELSE FileMapPut(fileMap, p, <<hash>>)

AllHashes(fileMap) == Flatten([i \in 1..Len(fileMap) |-> fileMap[i].hashes])

\* IndexManager.collectBlobNames
collectBlobNames(fileMap) == Dedup(AllHashes(fileMap))

\* -------------------------------------------------------------------- state
VARIABLES
  files,                \* the project tree: per path, present / content / ignored
  config,               \* the configuration record handed to the engine
  store,                \* the persisted index document
  isIndexing,           \* extension.ts: the single-flight flag of the save path
  indexDebounceTimers,  \* extension.ts: path -> timer handle (0: no entry)
  timers,               \* the timers pending in the event loop
  hasAutoIndexed,       \* ChatService.hasAutoIndexed
  pc,                   \* where each asynchronous run is suspended
  run,                  \* the locals of each run
  returned,             \* what the step just taken handed back, if it ended a call
  saves,                \* file saves so far
  quiet,                \* time since the last save of each path, capped
  burst,                \* per path, the current burst of saves: how many saves
                        \* it has and how many timer callbacks have run for it
  healing,              \* "partial": the document is what a partial_success
                        \* full reindex wrote, and the tree has not changed
                        \* since that run began; "healed": the document is what
                        \* a fully successful full reindex wrote on top of
                        \* that, the tree still the same; "none" otherwise
  fullIndexed,          \* some full reindex has written the document
  fullClean,            \* the document is what a fully successful full reindex
                        \* wrote, and the tree has not changed since that run began
  mcpServer,            \* the MCPServer object: its isRunning and httpServer
                        \* fields, and every HTTP server its start() has made
  chatView,             \* the chat view: the message list of the provider,
                        \* the isProcessing flag of the webview, and the
                        \* messages under way between the two
  retry,                \* a call of retryRequest, studied on its own
  work                  \* a call of splitFileContent or a partition into
                        \* batches, studied on its own

vars == <<files, config, store, isIndexing, indexDebounceTimers, timers,
          hasAutoIndexed, pc, run, returned, saves, quiet, burst, fullClean,
          fullIndexed, healing,
          mcpServer, chatView, retry, work>>

\* what no step of the engine or of its triggers changes
constVars == <<config, retry, work, mcpServer, chatView>>

\* the engine and its triggers
engineVars == <<files, config, store, isIndexing, indexDebounceTimers, timers,
                hasAutoIndexed, pc, run, returned, saves, quiet, burst, fullClean,
                fullIndexed, healing>>

timerVars == <<indexDebounceTimers, timers, quiet, burst, saves>>

NoTimer == 0

InitRun ==
  [file |-> FileA, gitignore |-> {}, todo |-> <<>>, blobs |-> <<>>,
   store |-> EmptyStore, nextFileMap |-> <<>>, nextHashes |-> <<>>,
   existingHashes |-> <<>>, newHashes |-> <<>>, batchIdx |-> 0,
   uploaded |-> <<>>, failed |-> <<>>, sent |-> <<>>, blobNames |-> <<>>,
   clean |-> FALSE, stages |-> <<>>]

\* no reply of the remote was handled in the step
NoReply == [kind |-> "none", blob_names |-> <<>>]

\* call: the entry point that ended; status: the status of its IndexResult
\* ("thrown" when it threw instead); answer: the text searchCodebase returned;
\* reply: the answer of the remote the step handled; write: what became of
\* the write of the document, if the step tried one; stages: the progress
\* stages a full reindex reported, in order; stats: the counts of its result
NoStats == [total_blobs |-> 0, existing_blobs |-> 0, new_blobs |-> 0]
NoResult == [call |-> "none", proc |-> "none", status |-> "", file |-> FileA,
             answer |-> "", reply |-> NoReply, write |-> "none",
             stages |-> <<>>, stats |-> NoStats]

\* no call of retryRequest has been made
NoRetry == [pc |-> "idle", maxRetries |-> 0, retryDelay |-> 0, attempt |-> 0,
            calls |-> 0, history |-> <<>>, delays |-> <<>>, message |-> ""]

\* no pure function has been applied
NoWork == [op |-> "none"]

\* the state after construction, the index file holding document
InitWith(document) ==
  /\ files = [f \in Paths |-> [present |-> TRUE, content |-> OneLine, ignored |-> FALSE]]
  /\ config \in [batchSize : 1..MaxBatchSize, maxLinesPerBlob : {1}]
  /\ store = document
  /\ isIndexing = FALSE
  /\ indexDebounceTimers = [f \in Paths |-> NoTimer]
  /\ timers = {}
  /\ hasAutoIndexed = FALSE
  /\ pc = [p \in Procs |-> "idle"]
  /\ run = [p \in Procs |-> InitRun]
  /\ returned = NoResult
  /\ saves = 0
  /\ quiet = [f \in Paths |-> INDEX_DEBOUNCE_DELAY]
  /\ burst = [f \in Paths |-> [saves |-> 0, callbacks |-> 0]]
  /\ fullClean = FALSE
  /\ fullIndexed = FALSE
  /\ healing = "none"
  /\ mcpServer = [isRunning |-> FALSE, httpServer |-> 0, listeners |-> <<>>]
  /\ chatView = [messages |-> <<>>, isProcessing |-> FALSE, submitted |-> 0,
                 posted |-> <<>>, updates |-> 0, inFlight |-> {}]
  /\ retry = NoRetry

\* no index file yet (578-580)
InitEngine == InitWith(EmptyStore)

Init == InitEngine /\ work = NoWork

\* the index file was written by a version that kept a bare array of digests
\* (584-586): it loads as those digests with an empty file_map
InitLegacy ==
  /\ InitWith([blob_names |-> <<calculateBlobName(FileB, OneLine)>>,
               file_map |-> <<>>])
  /\ work = NoWork

\* --------------------------------------------------------- the file system
\* the tree a run in flight has seen, or the document was written for, is
\* no longer the tree on disk
TreeChanged ==
  /\ fullClean' = FALSE
  /\ healing' = "none"
  /\ run' = [p \in Procs |-> [run[p] EXCEPT !.clean = FALSE]]

\* a file is written on disk
EditFile(f, c) ==
  /\ files[f] # [files[f] EXCEPT !.present = TRUE, !.content = c]
  /\ files' = [files EXCEPT ![f] = [@ EXCEPT !.present = TRUE, !.content = c]]
  /\ TreeChanged
  /\ returned' = NoResult
  /\ UNCHANGED <<constVars, store, fullIndexed,
                 isIndexing, hasAutoIndexed, timerVars, pc>>

\* a file is removed from disk
Delete(f) ==
  /\ files[f].present
  /\ files' = [files EXCEPT ![f] = [@ EXCEPT !.present = FALSE, !.content = OneLine]]
  /\ TreeChanged
  /\ returned' = NoResult
  /\ UNCHANGED <<constVars, store, fullIndexed,
                 isIndexing, hasAutoIndexed, timerVars, pc>>

\* the ignore rules, exclude patterns or extension list change for a path
SetIgnored(f) ==
  /\ files' = [files EXCEPT ![f] = [@ EXCEPT !.ignored = ~@]]
  /\ TreeChanged
  /\ returned' = NoResult
  /\ UNCHANGED <<constVars, store, fullIndexed,
                 isIndexing, hasAutoIndexed, timerVars, pc>>

\* ------------------------------------------------------------ the save path
\* a save that arms a timer without clearing the pending one
NoTimerCleared(f) == timers

\* indexFileWithDebounce 146-150: the pending timer of the path is cleared
ClearedTimers(f) == {t \in timers : t.id # indexDebounceTimers[f]}

FreshTimerId(pending) ==
  CHOOSE i \in 1..(Cardinality(pending) + 1) :
    /\ i \notin {t.id : t \in pending}
    /\ \A j \in 1..(i - 1) : j \in {t.id : t \in pending}

\* onDidSaveTextDocument (348-366): the editor has written the file;
\* ensureServices hands the configuration to ChatService.updateConfig, then
\* indexFileWithDebounce (144-202) re-arms the timer of the path
Save(f, c) ==
  /\ saves < MaxSaves
  /\ saves' = saves + 1
  /\ files' = [files EXCEPT ![f] = [@ EXCEPT !.present = TRUE, !.content = c]]
  /\ IF files' = files THEN UNCHANGED <<fullClean, healing, run>> ELSE TreeChanged
  /\ hasAutoIndexed' = FALSE
  /\ LET kept == ClearedTimers(f)
         id == FreshTimerId(kept)
     IN /\ timers' = kept \cup {[id |-> id, file |-> f, left |-> INDEX_DEBOUNCE_DELAY]}
        /\ indexDebounceTimers' = [indexDebounceTimers EXCEPT ![f] = id]
  /\ burst' = [burst EXCEPT ![f] =
                 IF quiet[f] < INDEX_DEBOUNCE_DELAY
                 THEN [@ EXCEPT !.saves = @ + 1]
                 ELSE [saves |-> 1, callbacks |-> 0]]
  /\ quiet' = [quiet EXCEPT ![f] = 0]
  /\ returned' = NoResult
  /\ UNCHANGED <<constVars, store, fullIndexed, isIndexing, pc>>

\* time passes; an expired timer runs before the clock moves on
Tick ==
  /\ timers # {}
  /\ \A t \in timers : t.left > 0
  /\ timers' = {[t EXCEPT !.left = Max(0, @ - TickMs)] : t \in timers}
  /\ quiet' = [f \in Paths |-> Min(INDEX_DEBOUNCE_DELAY, quiet[f] + TickMs)]
  /\ returned' = NoResult
  /\ UNCHANGED <<files, constVars, store, fullIndexed, isIndexing, indexDebounceTimers,
                 hasAutoIndexed, pc, run, burst, saves, fullClean, healing>>

\* --------------------------------------------------------------- the remote
BogusHash == <<"?">>

\* what POST /batch-upload can answer for a batch, as retryRequest hands it
\* on: a reply body, the error thrown once the request has failed for good
\* ("throw"), or the error thrown when the remote rejects the credential
\* with 401 or 403 ("rejected")
BatchResults(expected) ==
  {[kind |-> "data", blob_names |-> n] :
     n \in {expected,
            [i \in 1..Len(expected) |-> expected[Len(expected) + 1 - i]],
            Append(expected, expected[1]),
            Append(Tail(expected), BogusHash),
            Tail(expected),
            <<>>}}
  \cup {[kind |-> "throw", blob_names |-> <<>>],
        [kind |-> "rejected", blob_names |-> <<>>]}

\* a verification that takes any reply that lists a digest
BatchAccepted(expected, result) ==
  result.kind = "data" /\ Len(result.blob_names) # 0

\* the verification of a reply against the digests the batch was sent for
\* (extension.ts 1084-1099, 962-977)
BatchVerified(expected, result) ==
  /\ result.kind = "data"
  /\ Len(result.blob_names) # 0
  /\ Cardinality(Range(expected)) = Cardinality(Range(result.blob_names))
  /\ \A h \in Range(expected) : h \in Range(result.blob_names)

\* a slice that runs to the end of the list
BatchSliceToEnd(list, batchIdx, batchSize) ==
  SubSeq(list, batchIdx * batchSize + 1, Len(list))

\* the slice of a list that batch batchIdx (0-based) covers
BatchSlice(list, batchIdx, batchSize) ==
  SubSeq(list, batchIdx * batchSize + 1,
         Min(batchIdx * batchSize + batchSize, Len(list)))

TotalBatches(list, batchSize) == CeilDiv(Len(list), batchSize)

\* ------------------------------------------------------ hashing and diffing
RECURSIVE BuildFileMap(_)
\* the loop of indexProject over the collected blobs (1042-1049)
BuildFileMap(blobs) ==
  IF blobs = <<>> THEN <<>>
  ELSE LET b == blobs[Len(blobs)]
       IN FileMapPush(BuildFileMap(SubSeq(blobs, 1, Len(blobs) - 1)),
                      b.sourcePath, BlobHash(b))

\* the keys of blobHashMap, in insertion order
HashesOf(blobs) == Dedup([i \in 1..Len(blobs) |-> BlobHash(blobs[i])])

\* a diff that takes every candidate digest for a new one
EveryHashIsNew(hashes, blobNames) == hashes

\* a diff that finds none of the candidate digests in the document
NoHashExists(hashes, blobNames) == <<>>

\* a diff that takes every candidate digest for one the document lists
EveryHashExists(hashes, blobNames) == hashes

\* digests of the candidates the loaded store already lists / does not list
ExistingHashes(hashes, blobNames) == SelectSeqBy(hashes, Range(blobNames))
NewHashes(hashes, blobNames) ==
  SelectSeqBy(hashes, Range(hashes) \ Range(blobNames))

\* ------------------------------------------------------------------ commits
\* a full reindex that keeps every digest the loaded document listed
ProjectCommitKeepsLoaded(r) ==
  LET available == Dedup(r.existingHashes \o r.uploaded)
      fm == r.nextFileMap
      filtered == [i \in 1..Len(fm) |->
                     [path |-> fm[i].path,
                      hashes |-> SelectSeqBy(fm[i].hashes, Range(available))]]
  IN [blob_names |-> Dedup(r.store.blob_names \o r.uploaded),
      file_map |-> SelectSeq(filtered, LAMBDA e : Len(e.hashes) > 0)]

\* a full reindex that commits every candidate list as it was collected
ProjectCommitUnfiltered(r) ==
  [blob_names |-> Dedup(r.existingHashes \o r.uploaded),
   file_map |-> r.nextFileMap]

\* indexProject 1119-1140: the document a full reindex writes
ProjectCommit(r) ==
  LET available == Dedup(r.existingHashes \o r.uploaded)
      fm == r.nextFileMap
      filtered == [i \in 1..Len(fm) |->
                     [path |-> fm[i].path,
                      hashes |-> SelectSeqBy(fm[i].hashes, Range(available))]]
  IN [blob_names |-> available,
      file_map |-> SelectSeq(filtered, LAMBDA e : Len(e.hashes) > 0)]

\* indexFile 995-1001: the document a single-file reindex writes
FileCommit(r) ==
  LET nextFileMap == FileMapPut(r.store.file_map, r.file, r.nextHashes)
  IN [blob_names |-> collectBlobNames(nextFileMap), file_map |-> nextFileMap]

\* a removal that drops the entry and leaves blob_names as loaded
RemovalKeepsBlobNames(loaded, relativePath) ==
  [blob_names |-> loaded.blob_names,
   file_map |-> FileMapDelete(loaded.file_map, relativePath)]

\* removeFileFromIndex 643-651: the document a removal writes
RemovalCommit(loaded, relativePath) ==
  LET nextFileMap == FileMapDelete(loaded.file_map, relativePath)
  IN [blob_names |-> collectBlobNames(nextFileMap), file_map |-> nextFileMap]

\* a status that never tells of a failed batch
AlwaysSuccess(r) == "success"

\* the status indexProject returns after its commit (1151)
ProjectStatus(r) == IF Len(r.failed) = 0 THEN "success" ELSE "partial_success"

\* a first-run rule that never fires
FirstRunNeverFailed(r) == FALSE

\* the first-run rule of indexProject (1109)
FirstRunAllFailed(r) == Len(r.uploaded) = 0 /\ Len(r.existingHashes) = 0

\* a no-commit rule that never fires
FileRunNeverFailed(r) == FALSE

\* the no-commit rule of indexFile (985)
FileRunFailed(r) == Len(r.failed) > 0

\* ------------------------------------------------ how a run hands back
\* a search that sends its retrieval request whatever became of the reindex
QueriesWhateverTheIndex(p, status, blobNames) == p = "search"

\* searchCodebase 1230-1240: after its reindex the search goes on to the
\* retrieval request unless the reindex ended in error or the document
\* read again lists no digest
GoesOnToQuery(p, status, blobNames) ==
  p = "search" /\ status # "error" /\ blobNames # <<>>

\* indexProject returns to its caller: runAutoIndex drops the result,
\* searchCodebase (1229-1240) gives up on an error and otherwise reads the
\* document again and goes on to the retrieval request
ProjectReturn(p, status, reply, write, stages, stats) ==
  LET toQuery == GoesOnToQuery(p, status, store'.blob_names)
  IN /\ returned' = [call |-> "indexProject", proc |-> p, status |-> status,
                     file |-> FileA, reply |-> reply, write |-> write,
                     stages |-> stages, stats |-> stats,
                     answer |-> IF p # "search" \/ toQuery THEN ""
                                ELSE IF status = "error"
                                     THEN "Error: Failed to index project"
                                     ELSE "Error: No blobs found after indexing"]
     /\ pc' = [pc EXCEPT ![p] = IF toQuery THEN "query" ELSE "idle"]
     /\ run' = [run EXCEPT ![p] =
                  IF toQuery THEN [InitRun EXCEPT !.blobNames = store'.blob_names]
                  ELSE InitRun]

\* a callback whose flag stays as it is when indexFile comes back
FileReturnKeepsFlag(status, f, reply, write) ==
  /\ returned' = [call |-> "indexFile", proc |-> "file", status |-> status,
                  file |-> f, answer |-> "", reply |-> reply, write |-> write,
                  stages |-> <<>>, stats |-> NoStats]
  /\ pc' = [pc EXCEPT !["file"] = "idle"]
  /\ run' = [run EXCEPT !["file"] = InitRun]
  /\ UNCHANGED isIndexing

\* indexFile returns or throws to the timer callback, whose finally block
\* resets the flag (190-197)
FileReturn(status, f, reply, write) ==
  /\ returned' = [call |-> "indexFile", proc |-> "file", status |-> status,
                  file |-> f, answer |-> "", reply |-> reply, write |-> write,
                  stages |-> <<>>, stats |-> NoStats]
  /\ pc' = [pc EXCEPT !["file"] = "idle"]
  /\ run' = [run EXCEPT !["file"] = InitRun]
  /\ isIndexing' = FALSE

\* saveIndexStore (601-609) has written the document
Written(newStore, clean, partial, full) ==
  /\ store' = newStore
  /\ fullClean' = clean
  /\ healing' = IF partial THEN "partial"
                ELSE IF clean /\ healing = "partial" THEN "healed" ELSE "none"
  /\ fullIndexed' = (fullIndexed \/ full)

\* a step that leaves an empty document behind
WritesEmptyDocument ==
  store' = EmptyStore /\ fullClean' = FALSE /\ UNCHANGED <<fullIndexed, healing>>

\* the document stays as it is: saveIndexStore is not called, or throws
NoWrite == UNCHANGED <<store, fullClean, fullIndexed, healing>>

\* the counts of the result of a full reindex (1149-1157)
ProjectStats(r) ==
  [total_blobs |-> Cardinality(Range(r.existingHashes) \cup Range(r.uploaded)),
   existing_blobs |-> Cardinality(Range(r.existingHashes)),
   new_blobs |-> Len(r.uploaded)]

\* a commit that reports complete before the write has gone through
ReportsCompleteBeforeWrite(writeOk) ==
  IF writeOk THEN <<"saving", "complete">> ELSE <<"saving", "complete", "error">>

\* the stages reported from the commit on: saving (1130), then complete
\* (1143) once saveIndexStore has returned, or error (1162) from the catch
\* block when it has thrown
CommitStages(writeOk) ==
  IF writeOk THEN <<"saving", "complete">> ELSE <<"saving", "error">>

\* a full reindex whose catch block loses the failure of the write
ProjectFinishHidesWriteFailure(p, r, reply) ==
  IF Len(r.newHashes) > 0 /\ FirstRunAllFailed(r)
  THEN NoWrite /\ ProjectReturn(p, "error", reply, "none",
                                Append(r.stages, "error"), NoStats)
  ELSE \E writeOk \in BOOLEAN :
         IF writeOk
         THEN /\ Written(ProjectCommit(r),
                         ProjectStatus(r) = "success" /\ r.clean,
                         ProjectStatus(r) = "partial_success" /\ r.clean, TRUE)
              /\ ProjectReturn(p, ProjectStatus(r), reply, "ok",
                               r.stages \o CommitStages(TRUE), ProjectStats(r))
         ELSE NoWrite /\ ProjectReturn(p, ProjectStatus(r), reply, "failed",
                                      r.stages \o CommitStages(FALSE),
                                      ProjectStats(r))

\* indexProject from the first-run rule to its return (1109-1168); a write
\* that throws is caught at 1159
ProjectFinish(p, r, reply) ==
  IF Len(r.newHashes) > 0 /\ FirstRunAllFailed(r)
  THEN NoWrite /\ ProjectReturn(p, "error", reply, "none",
                                Append(r.stages, "error"), NoStats)
  ELSE \E writeOk \in BOOLEAN :
         IF writeOk
         THEN /\ Written(ProjectCommit(r),
                         ProjectStatus(r) = "success" /\ r.clean,
                         ProjectStatus(r) = "partial_success" /\ r.clean, TRUE)
              /\ ProjectReturn(p, ProjectStatus(r), reply, "ok",
                               r.stages \o CommitStages(TRUE), ProjectStats(r))
         ELSE NoWrite /\ ProjectReturn(p, "error", reply, "failed",
                                      r.stages \o CommitStages(FALSE), NoStats)

\* indexFile from the no-commit rule to its return (985-1009); a write that
\* throws leaves indexFile as an exception
FileFinish(r, reply) ==
  IF FileRunFailed(r)
  THEN NoWrite /\ FileReturn("error", r.file, reply, "none")
  ELSE \E writeOk \in BOOLEAN :
         IF writeOk
         THEN /\ Written(FileCommit(r), FALSE, FALSE, FALSE)
              /\ FileReturn("success", r.file, reply, "ok")
         ELSE NoWrite /\ FileReturn("thrown", r.file, reply, "failed")

\* the first batch goes out as the upload loop is entered
StartUpload(p, r) ==
  /\ pc' = [pc EXCEPT ![p] = "upload"]
  /\ run' = [run EXCEPT ![p] =
               [r EXCEPT !.batchIdx = 0,
                         !.sent = BatchSlice(r.newHashes, 0, config.batchSize)]]
  /\ returned' = NoResult
  /\ NoWrite

\* indexProject once collectFiles has returned (1022-1067)
ProjectDiff(p, blobs) ==
  IF blobs = <<>>
  THEN NoWrite /\ ProjectReturn(p, "error", NoReply, "none", <<"error">>, NoStats)
  ELSE LET hashes == HashesOf(blobs)
           r == [run[p] EXCEPT
                   !.todo = <<>>,
                   !.blobs = blobs,
                   !.store = store,
                   !.nextFileMap = BuildFileMap(blobs),
                   !.existingHashes = ExistingHashes(hashes, store.blob_names),
                   !.newHashes = NewHashes(hashes, store.blob_names),
                   !.stages = <<"hashing", "uploading">>]
       IN IF r.newHashes = <<>> THEN ProjectFinish(p, r, NoReply) ELSE StartUpload(p, r)

\* -------------------------------------------------- the debounce callback
\* the single-flight test of the callback (158)
Busy == isIndexing

\* 158-161: a reindex started by an earlier callback is still running
CallbackDropped(f) ==
  /\ Busy
  /\ returned' = NoResult
  /\ UNCHANGED <<files, constVars, store, fullIndexed,
                 isIndexing, hasAutoIndexed, pc, run,
                 fullClean, healing>>

\* indexFile 893-905 with removeFileFromIndex: the path is excluded, has no
\* allowed extension or is gone.  Nothing is awaited, so the callback runs
\* to its finally block in this step.
CallbackRemoves(f) ==
  /\ ~Busy
  /\ files[f].ignored \/ ~files[f].present
  /\ IF ~FileMapHas(store.file_map, f)
     THEN NoWrite /\ FileReturn("skipped", f, NoReply, "none")
     ELSE \E writeOk \in BOOLEAN :
            IF writeOk
            THEN /\ Written(RemovalCommit(store, f), FALSE, FALSE, FALSE)
                 /\ FileReturn("success", f, NoReply, "ok")
            ELSE NoWrite /\ FileReturn("thrown", f, NoReply, "failed")
  /\ UNCHANGED <<files, constVars, hasAutoIndexed>>

\* 164-185 and indexFile up to its first await (907-913)
CallbackIndexes(f) ==
  /\ ~Busy
  /\ ~files[f].ignored /\ files[f].present
  /\ isIndexing' = TRUE
  /\ pc' = [pc EXCEPT !["file"] = "read"]
  /\ run' = [run EXCEPT !["file"] = [InitRun EXCEPT !.file = f]]
  /\ returned' = NoResult
  /\ UNCHANGED <<files, constVars, store, fullIndexed,
                 hasAutoIndexed, fullClean, healing>>

\* 164-169: the workspace folder is gone by the time the callback runs;
\* the flag set at 164 is reset by the finally block (194-197) before the
\* callback gives up control, and indexFile is never called
CallbackNoRoot(f) ==
  /\ ~Busy
  /\ isIndexing' = FALSE
  /\ returned' = NoResult
  /\ UNCHANGED <<files, constVars, store, fullIndexed,
                 hasAutoIndexed, pc, run, fullClean, healing>>

\* the callback starts by dropping its entry of the timer map (155)
TimerExpires(t) ==
  /\ t \in timers
  /\ t.left = 0
  /\ timers' = timers \ {t}
  /\ indexDebounceTimers' = [indexDebounceTimers EXCEPT ![t.file] = NoTimer]
  /\ burst' = [burst EXCEPT ![t.file].callbacks = @ + 1]
  /\ UNCHANGED <<quiet, saves>>

TimerFireDropped(t) == TimerExpires(t) /\ CallbackDropped(t.file)
TimerFireRemoves(t) == TimerExpires(t) /\ CallbackRemoves(t.file)
TimerFireIndexes(t) == TimerExpires(t) /\ CallbackIndexes(t.file)

\* a comparison that never finds the two lists the same
NeverSame(previousHashes, nextHashes) == FALSE

\* indexFile 924-926: the stored list and the fresh list have the same
\* length and the same digest at every place
isSame(previousHashes, nextHashes) ==
  /\ Len(previousHashes) = Len(nextHashes)
  /\ \A idx \in 1..Len(previousHashes) : previousHashes[idx] = nextHashes[idx]

\* indexFile 913-943: the file has been read (or the read failed)
FileReadDone ==
  /\ pc["file"] = "read"
  /\ LET f == run["file"].file
     IN IF ~files[f].present
        THEN NoWrite /\ FileReturn("thrown", f, NoReply, "none")
        ELSE LET fileBlobs == splitFileContent(f, files[f].content,
                                               config.maxLinesPerBlob)
                 nextHashes == [i \in 1..Len(fileBlobs) |-> BlobHash(fileBlobs[i])]
                 previousHashes == IF FileMapHas(store.file_map, f)
                                   THEN FileMapGet(store.file_map, f) ELSE <<>>
                 r == [run["file"] EXCEPT
                         !.blobs = fileBlobs,
                         !.store = store,
                         !.nextHashes = nextHashes,
                         !.newHashes = NewHashes(nextHashes, store.blob_names)]
             IN IF isSame(previousHashes, nextHashes)
                THEN NoWrite /\ FileReturn("success", f, NoReply, "none")
                ELSE IF r.newHashes = <<>>
                     THEN FileFinish(r, NoReply)
                     ELSE StartUpload("file", r) /\ UNCHANGED isIndexing
  /\ UNCHANGED <<files, constVars, hasAutoIndexed, timerVars>>

\* ------------------------------------------------------ the full reindex
\* indexProject is entered: collectFiles loads the ignore rules and waits
\* for readdir (775-780)
EnterProject(p) ==
  /\ pc' = [pc EXCEPT ![p] = "readdir"]
  /\ run' = [run EXCEPT ![p] =
               [InitRun EXCEPT !.gitignore = {f \in Paths : files[f].ignored},
                               !.clean = TRUE]]
  /\ returned' = NoResult

\* ChatService.runAutoIndex (563-582)
StartAuto ==
  /\ ~hasAutoIndexed
  /\ pc["auto"] = "idle"
  /\ hasAutoIndexed' = TRUE
  /\ EnterProject("auto")
  /\ UNCHANGED <<files, constVars, store, fullIndexed,
                 isIndexing, timerVars, fullClean, healing>>

\* searchCodebase 1226-1229 (from the chat view or the MCP tool): the lazy
\* bootstrap when the document lists no digest, else straight to the query
StartSearch ==
  /\ pc["search"] = "idle"
  /\ IF store.blob_names = <<>>
     THEN EnterProject("search")
     ELSE /\ pc' = [pc EXCEPT !["search"] = "query"]
          /\ run' = [run EXCEPT !["search"] =
                       [InitRun EXCEPT !.blobNames = store.blob_names]]
          /\ returned' = NoResult
  /\ UNCHANGED <<files, constVars, store, fullIndexed,
                 isIndexing, hasAutoIndexed, timerVars,
                 fullClean, healing>>

\* collectFiles 780-797: the directory has been listed; the files that pass
\* the ignore filter and the extension list are read one after the other
ReaddirDone(p) ==
  /\ pc[p] = "readdir"
  /\ LET todo == SelectSeq(PathOrder,
                   LAMBDA f : files[f].present /\ f \notin run[p].gitignore)
     IN IF todo = <<>>
        THEN ProjectDiff(p, <<>>)
        ELSE /\ pc' = [pc EXCEPT ![p] = "collect"]
             /\ run' = [run EXCEPT ![p] = [@ EXCEPT !.todo = todo]]
             /\ returned' = NoResult
             /\ NoWrite
  /\ UNCHANGED <<files, constVars, isIndexing, hasAutoIndexed, timerVars>>

\* the blobs collectFiles holds once the file being read has arrived: a
\* file that can no longer be read is skipped (799-810)
CollectedBlobs(p) ==
  LET f == Head(run[p].todo)
  IN IF files[f].present
     THEN run[p].blobs \o splitFileContent(f, files[f].content, config.maxLinesPerBlob)
     ELSE run[p].blobs

\* collectFiles 799-817: one file has been read; after the last one
\* indexProject goes on to hash and diff without waiting
CollectDone(p) ==
  /\ pc[p] = "collect"
  /\ IF Len(run[p].todo) > 1
     THEN /\ run' = [run EXCEPT ![p] =
                       [@ EXCEPT !.todo = Tail(@), !.blobs = CollectedBlobs(p)]]
          /\ returned' = NoResult
          /\ NoWrite
          /\ UNCHANGED pc
     ELSE ProjectDiff(p, CollectedBlobs(p))
  /\ UNCHANGED <<files, constVars, isIndexing, hasAutoIndexed, timerVars>>

\* collectFiles 779-784: a directory met in the walk (the root, or a
\* directory listed among the entries of another one) cannot be listed
\* or is gone; the rejection of readdir leaves walkDir and collectFiles,
\* and indexProject catches it at 1159
ReaddirFails(p) ==
  /\ pc[p] \in {"readdir", "collect"}
  /\ NoWrite
  /\ ProjectReturn(p, "error", NoReply, "none",
                   Append(run[p].stages, "error"), NoStats)
  /\ UNCHANGED <<files, constVars, isIndexing, hasAutoIndexed, timerVars>>

\* ------------------------------------------------------------ upload loop
\* an upload loop that gives up at the first failed batch
NoBatchAfterFailure(r) ==
  r.batchIdx < TotalBatches(r.newHashes, config.batchSize) /\ r.failed = <<>>

\* the test of the upload loop (1070, 948): batchIdx < totalBatches
MoreBatches(r) == r.batchIdx < TotalBatches(r.newHashes, config.batchSize)

\* one batch has been answered with result (1076-1106, 954-982); the next
\* one goes out or the run comes to its end
UploadAnswered(p, result) ==
  /\ pc[p] = "upload"
  /\ LET r == run[p]
         expected == BatchSlice(r.newHashes, r.batchIdx, config.batchSize)
     IN /\ result \in BatchResults(expected)
        /\
          LET ok == BatchVerified(expected, result)
              r1 == [r EXCEPT
                       !.uploaded = IF ok /\ p \in ProjectProcs
                                    THEN @ \o result.blob_names ELSE @,
                       !.failed = IF ok THEN @ ELSE Append(@, r.batchIdx + 1),
                       !.batchIdx = @ + 1]
          IN IF MoreBatches(r1)
             THEN /\ run' = [run EXCEPT ![p] =
                               [r1 EXCEPT !.sent = @ \o BatchSlice(r.newHashes,
                                                     r1.batchIdx, config.batchSize)]]
                  /\ returned' = [NoResult EXCEPT !.reply = result]
                  /\ NoWrite
                  /\ UNCHANGED <<pc, isIndexing>>
             ELSE IF p = "file"
                  THEN FileFinish(r1, result)
                  ELSE ProjectFinish(p, r1, result) /\ UNCHANGED isIndexing
  /\ UNCHANGED <<files, constVars, hasAutoIndexed, timerVars>>

\* the remote answers the batch in whatever way it can
UploadReply(p) ==
  /\ pc[p] = "upload"
  /\ \E result \in BatchResults(BatchSlice(run[p].newHashes, run[p].batchIdx,
                                            config.batchSize)) :
       UploadAnswered(p, result)

\* the remote answers the batch with the digests of the blobs sent
UploadSucceeds(p) ==
  UploadAnswered(p, [kind |-> "data",
                     blob_names |-> BatchSlice(run[p].newHashes, run[p].batchIdx,
                                               config.batchSize)])

\* searchCodebase 1261-1293: the retrieval request has been answered
QueryDone ==
  /\ pc["search"] = "query"
  /\ \E answer \in {"formatted_retrieval", "No relevant code context found", "Error"} :
       returned' = [call |-> "searchCodebase", proc |-> "search", status |-> "",
                    file |-> FileA, answer |-> answer, reply |-> NoReply,
                    stages |-> <<>>, stats |-> NoStats,
                    write |-> "none"]
  /\ pc' = [pc EXCEPT !["search"] = "idle"]
  /\ run' = [run EXCEPT !["search"] = InitRun]
  /\ UNCHANGED <<files, constVars, store, fullIndexed,
                 isIndexing, hasAutoIndexed, timerVars,
                 fullClean, healing>>

\* ------------------------------------------------------------ retryRequest
\* The errors the wrapped request can fail with: the code of the error, the
\* HTTP status of the response (0: there was no response), and whether the
\* message of the error mentions a certificate.
Failures ==
  {[code |-> c, status |-> 0, certificate |-> FALSE] :
     c \in {"ECONNREFUSED", "ETIMEDOUT", "ENOTFOUND", "ECONNRESET",
            "UNABLE_TO_VERIFY_LEAF_SIGNATURE", "CERT_HAS_EXPIRED",
            "ERR_TLS_CERT_ALTNAME_INVALID", "none"}}
  \cup {[code |-> "ERR_BAD_REQUEST", status |-> st, certificate |-> FALSE] :
          st \in {400, 401, 403}}
  \cup {[code |-> "ERR_BAD_RESPONSE", status |-> st, certificate |-> FALSE] :
          st \in {500, 503}}
  \cup {[code |-> "ECONNREFUSED", status |-> 0, certificate |-> TRUE]}

\* 837, 843: the remote rejects the credential
TokenRejected(f) == f.status = 401
AccessDenied(f) == f.status = 403

\* a classification that knows no certificate failure
NoCertificateFailure(f) == FALSE

\* 849-853: the certificate of the remote cannot be validated
CertificateFailure(f) ==
  \/ f.code \in {"UNABLE_TO_VERIFY_LEAF_SIGNATURE", "CERT_HAS_EXPIRED",
                 "ERR_TLS_CERT_ALTNAME_INVALID"}
  \/ f.certificate

\* a classification that retries whatever the failure
EveryFailureRetryable(f) == TRUE

\* 858-862
isRetryable(f) ==
  \/ f.code \in {"ECONNREFUSED", "ETIMEDOUT", "ENOTFOUND"}
  \/ f.status # 0 /\ f.status >= 500

\* 866-873: the message of the error thrown when the request is given up
friendlyMessage(f) ==
  IF f.code = "ECONNREFUSED" THEN "cannot connect to the server"
  ELSE IF f.code = "ETIMEDOUT" THEN "connection timed out"
  ELSE IF f.code = "ENOTFOUND" THEN "cannot resolve the server address"
  ELSE "lastError.message"

\* a backoff that waits the same time before every attempt
ConstantDelay(retryDelay, attempt) == retryDelay

\* 878: waitTime
BackoffDelay(retryDelay, attempt) == retryDelay * (2 ^ attempt)

\* retryRequest stops with an error
RetryThrows(f, message) ==
  retry' = [retry EXCEPT !.pc = "threw", !.message = message,
                         !.history = Append(@, f)]

\* retryRequest(fn, maxRetries, retryDelay) is called (822-831): the loop
\* invokes fn, or is not entered at all (884)
RetryCall(maxRetries, retryDelay) ==
  /\ retry.pc = "idle"
  /\ retry' = IF 0 < maxRetries
              THEN [NoRetry EXCEPT !.pc = "fn", !.maxRetries = maxRetries,
                                   !.retryDelay = retryDelay, !.calls = 1]
              ELSE [NoRetry EXCEPT !.pc = "threw", !.maxRetries = maxRetries,
                                   !.retryDelay = retryDelay,
                                   !.message = "All retries failed"]
  /\ UNCHANGED <<engineVars, mcpServer, chatView, work>>

\* fn resolves: retryRequest returns its value (831)
FnReturns ==
  /\ retry.pc = "fn"
  /\ retry' = [retry EXCEPT !.pc = "returned"]
  /\ UNCHANGED <<engineVars, mcpServer, chatView, work>>

\* fn rejects with failure f: the catch block (832-880)
FnFails(f) ==
  /\ retry.pc = "fn"
  /\ IF TokenRejected(f) THEN RetryThrows(f, "token invalid")
     ELSE IF AccessDenied(f) THEN RetryThrows(f, "access denied")
     ELSE IF CertificateFailure(f) THEN RetryThrows(f, "certificate not verified")
     ELSE IF ~isRetryable(f) \/ retry.attempt = retry.maxRetries - 1
          THEN RetryThrows(f, friendlyMessage(f))
          ELSE retry' = [retry EXCEPT
                           !.pc = "sleep",
                           !.history = Append(@, f),
                           !.delays = Append(@, BackoffDelay(retry.retryDelay,
                                                             retry.attempt))]
  /\ UNCHANGED <<engineVars, mcpServer, chatView, work>>

\* the sleep is over (880): the loop goes round (829) and invokes fn again,
\* or is left with the last error (884)
SleepDone ==
  /\ retry.pc = "sleep"
  /\ retry' = IF retry.attempt + 1 < retry.maxRetries
              THEN [retry EXCEPT !.pc = "fn", !.attempt = @ + 1, !.calls = @ + 1]
              ELSE [retry EXCEPT !.pc = "threw", !.attempt = @ + 1,
                                 !.message = "lastError.message"]
  /\ UNCHANGED <<engineVars, mcpServer, chatView, work>>

\* ------------------------------------------------------------ specifications
AllIdle == \A p \in Procs : pc[p] = "idle"

\* The engine, one operation after the other: indexFile and indexProject
\* are called while no run is in flight, the project tree changes at any
\* time, the remote and the disk answer as they please.
IndexFileRemoves(f) == AllIdle /\ CallbackRemoves(f) /\ UNCHANGED timerVars
IndexFileIndexes(f) == AllIdle /\ CallbackIndexes(f) /\ UNCHANGED timerVars
IndexProject ==
  /\ AllIdle
  /\ EnterProject("auto")
  /\ UNCHANGED <<files, constVars, store, fullIndexed,
                 isIndexing, hasAutoIndexed, timerVars,
                 fullClean, healing>>

Next ==
  \/ \E c \in Contents : EditFile(FileA, c)
  \/ EditFile(FileB, OneLine)
  \/ \E f \in Paths : Delete(f)
  \/ SetIgnored(FileA)
  \/ \E f \in Paths : IndexFileRemoves(f)
  \/ \E f \in Paths : IndexFileIndexes(f)
  \/ IndexProject
  \/ FileReadDone
  \/ ReaddirDone("auto")
  \/ CollectDone("auto")
  \/ ReaddirFails("auto")
  \/ \E p \in {"file", "auto"} : UploadReply(p)

Spec == Init /\ [][Next]_vars

\* The triggers as the extension wires them: saves arm debounce timers and
\* the chat panel starts runAutoIndex, while the clock runs.
InitTriggers == Init /\ config.batchSize = MaxBatchSize

NextTriggers ==
  \/ \E f \in Paths : Save(f, OneLine)
  \/ Delete(FileB)
  \/ Tick
  \/ \E t \in timers : TimerFireDropped(t)
  \/ \E t \in timers : TimerFireRemoves(t)
  \/ \E t \in timers : TimerFireIndexes(t)
  \/ \E t \in timers : TimerExpires(t) /\ CallbackNoRoot(t.file)
  \/ FileReadDone
  \/ StartAuto
  \/ ReaddirDone("auto")
  \/ CollectDone("auto")
  \/ ReaddirFails("auto")
  \/ \E p \in {"file", "auto"} : UploadReply(p)

SpecTriggers == InitTriggers /\ [][NextTriggers]_vars

\* The triggers while the remote answers every upload as it should.
NextSaves ==
  \/ \E f \in Paths : Save(f, OneLine)
  \/ Save(FileA, TwoLines)
  \/ Delete(FileB)
  \/ Tick
  \/ \E t \in timers : TimerFireDropped(t)
  \/ \E t \in timers : TimerFireRemoves(t)
  \/ \E t \in timers : TimerFireIndexes(t)
  \/ FileReadDone
  \/ StartAuto
  \/ ReaddirDone("auto")
  \/ CollectDone("auto")
  \/ \E p \in {"file", "auto"} : UploadSucceeds(p)

SpecSaves == InitTriggers /\ [][NextSaves]_vars

\* searchCodebase, called from the chat view or the MCP tool while the
\* project tree changes and full reindexes come and go
NextSearch ==
  \/ EditFile(FileA, TwoLines)
  \/ \E f \in Paths : Delete(f)
  \/ IndexProject
  \/ StartSearch
  \/ \E p \in ProjectProcs : ReaddirDone(p)
  \/ \E p \in ProjectProcs : CollectDone(p)
  \/ \E p \in ProjectProcs : ReaddirFails(p)
  \/ \E p \in ProjectProcs : UploadReply(p)
  \/ QueryDone

SpecSearch == Init /\ [][NextSearch]_vars

\* the engine called sequentially, starting from a legacy index file
SpecLegacy == InitLegacy /\ [][Next]_vars

\* ----------------------------------------------------------- MCP server
\* MCPServer.start (server.ts 29-138): nothing if isRunning; otherwise a
\* new HTTP server is made to listen on the port and httpServer refers to
\* it; the port is refused when another server of the process holds it
\* (EADDRINUSE, 130-137).  isRunning is left to the listen callback.
start ==
  /\ Len(mcpServer.listeners) < MaxStarts
  /\ IF mcpServer.isRunning
     THEN UNCHANGED mcpServer
     ELSE LET portFree == \A i \in 1..Len(mcpServer.listeners) :
                            mcpServer.listeners[i].state # "listening"
          IN mcpServer' =
               [mcpServer EXCEPT
                  !.listeners = Append(@, [state |-> IF portFree THEN "listening"
                                                     ELSE "refused",
                                           called |-> FALSE]),
                  !.httpServer = Len(mcpServer.listeners) + 1]
  /\ UNCHANGED <<engineVars, chatView, retry, work>>

\* the listen callback of HTTP server i (server.ts 121-128)
ListenCallback(i) ==
  /\ i \in 1..Len(mcpServer.listeners)
  /\ mcpServer.listeners[i].state = "listening"
  /\ ~mcpServer.listeners[i].called
  /\ mcpServer' = [mcpServer EXCEPT !.listeners[i].called = TRUE,
                                    !.isRunning = TRUE]
  /\ UNCHANGED <<engineVars, chatView, retry, work>>

\* MCPServer.stop (server.ts 281-305): nothing unless isRunning; otherwise
\* the server httpServer refers to is closed and the fields are reset
stop ==
  /\ mcpServer' =
       IF ~mcpServer.isRunning
       THEN mcpServer
       ELSE [mcpServer EXCEPT
               !.listeners = [i \in 1..Len(@) |->
                                IF i = mcpServer.httpServer
                                THEN [@[i] EXCEPT !.state = "closed"]
                                ELSE @[i]],
               !.httpServer = 0,
               !.isRunning = FALSE]
  /\ UNCHANGED <<engineVars, chatView, retry, work>>

\* ------------------------------------------------------------- chat view
\* the webview's triggerCodebaseSearch (ChatViewProvider.ts 1422-1445):
\* nothing while isProcessing; otherwise the flag is set and the text is
\* posted to the provider
triggerCodebaseSearch ==
  /\ ~chatView.isProcessing
  /\ chatView.submitted < MaxMessages
  /\ chatView' = [chatView EXCEPT
                    !.isProcessing = TRUE,
                    !.submitted = @ + 1,
                    !.posted = Append(@, chatView.submitted + 1)]
  /\ UNCHANGED <<engineVars, mcpServer, retry, work>>

\* the provider's handleCodebaseSearch up to its await (230-265): the
\* user message and the loading placeholder are pushed, each followed by
\* updateWebview, and the search is started
handleCodebaseSearch ==
  /\ chatView.posted # <<>>
  /\ LET n == Head(chatView.posted)
     IN chatView' = [chatView EXCEPT
                       !.posted = Tail(@),
                       !.messages = @ \o <<[role |-> "user", of |-> n],
                                           [role |-> "loading", of |-> n]>>,
                       !.updates = @ + 2,
                       !.inFlight = @ \cup {n}]
  /\ UNCHANGED <<engineVars, mcpServer, retry, work>>

\* the webview's handler of updateMessages (1499-1513): the list is
\* rendered and isProcessing is reset
updateMessages ==
  /\ chatView.updates > 0
  /\ chatView' = [chatView EXCEPT !.updates = @ - 1, !.isProcessing = FALSE]
  /\ UNCHANGED <<engineVars, mcpServer, retry, work>>

\* handleCodebaseSearch after its await (267-292): the search of message n
\* has returned or thrown; the last message of the list is popped and the
\* reply, or the error message, is pushed
SearchAnswered(n) ==
  /\ n \in chatView.inFlight
  /\ chatView' = [chatView EXCEPT
                    !.inFlight = @ \ {n},
                    !.messages = Append(SubSeq(@, 1, Len(@) - 1),
                                        [role |-> "assistant", of |-> n]),
                    !.updates = @ + 1]
  /\ UNCHANGED <<engineVars, mcpServer, retry, work>>

\* the MCP server and the chat view, each called as the editor calls them
NextViews ==
  \/ start
  \/ \E i \in 1..MaxStarts : ListenCallback(i)
  \/ stop
  \/ triggerCodebaseSearch
  \/ handleCodebaseSearch
  \/ updateMessages
  \/ \E n \in 1..MaxMessages : SearchAnswered(n)

SpecViews == Init /\ [][NextViews]_vars

\* searches, full reindexes, and the reindex of one saved file
NextSaveSearch ==
  \/ EditFile(FileA, TwoLines)
  \/ IndexFileIndexes(FileA)
  \/ FileReadDone
  \/ UploadReply("file")
  \/ IndexProject
  \/ StartSearch
  \/ \E p \in ProjectProcs : ReaddirDone(p)
  \/ \E p \in ProjectProcs : CollectDone(p)
  \/ \E p \in ProjectProcs : UploadReply(p)
  \/ QueryDone

SpecSaveSearch == Init /\ [][NextSaveSearch]_vars

\* retryRequest on its own: any number of attempts allowed, any failure
\* or success of the wrapped request.
NextRetry ==
  \/ \E maxRetries \in 0..MaxRetries : RetryCall(maxRetries, DefaultRetryDelay)
  \/ FnReturns
  \/ \E f \in Failures : FnFails(f)
  \/ SleepDone

SpecRetry == Init /\ [][NextRetry]_vars

\* ----------------------------------------- splitting and batching, alone
Chars == {"x", "\n", "\r"}
Texts == UNION {[1..n -> Chars] : n \in 0..MaxLen}
Thresholds == (0 - 1)..MaxThreshold

\* contents of 0..MaxLen lines, each a bare line feed
LineTexts == {[i \in 1..n |-> "\n"] : n \in 0..MaxLen}

\* blobHashMap.get(hash): the blob that was set last under the digest
BlobOfHash(blobs, hash) ==
  blobs[CHOOSE i \in 1..Len(blobs) :
          /\ BlobHash(blobs[i]) = hash
          /\ \A j \in (i + 1)..Len(blobs) : BlobHash(blobs[j]) # hash]

\* newHashes.map((hash) => blobHashMap.get(hash)!)
BlobsToUpload(hashes, blobs) ==
  [i \in 1..Len(hashes) |-> BlobOfHash(blobs, hashes[i])]

\* the calls of splitFileContent that are studied
SplitInputs ==
  [op : {"content"}, filePath : Paths, content : Texts,
   maxLinesPerBlob : Thresholds]

\* the blobs a full reindex collects from two files, one line to a blob
BlobsOfTwoFiles(contentA, contentB) ==
  splitFileContent(FileA, contentA, 1) \o splitFileContent(FileB, contentB, 1)

\* the full reindexes whose batches are studied: the contents of the two
\* files, and which digest the loaded document lists already (0: none)
PartitionInputs ==
  {w \in [op : {"blobs"}, contentA : LineTexts, contentB : LineTexts,
          known : 0..(2 * MaxLen)] :
     w.known <= Len(BlobsOfTwoFiles(w.contentA, w.contentB))}

\* the blobs whose digests are compared: logical paths, one of them a
\* prefix of another, and short contents
HashPaths == {FileA, FileB, FileA \o <<"x">>}
HashTexts == UNION {[1..n -> Chars] : n \in 0..MaxHashLen}
HashInputs ==
  [op : {"pair"}, first : [path : HashPaths, content : HashTexts],
   second : [path : HashPaths, content : HashTexts]]

InitPure == InitEngine /\ work \in SplitInputs \cup PartitionInputs \cup HashInputs

\* calculateBlobName is applied to two blobs
HashPair ==
  /\ work.op = "pair"
  /\ work' = [op |-> "digests", first |-> work.first, second |-> work.second,
              digests |-> <<BlobHash(work.first), BlobHash(work.second)>>]
  /\ UNCHANGED <<engineVars, mcpServer, chatView, retry>>

\* one call of splitFileContent under a threshold of the settings
Split ==
  /\ work.op = "content"
  /\ work' = IF SplitReturns(work.content, work.maxLinesPerBlob)
             THEN [op |-> "split", filePath |-> work.filePath,
                   content |-> work.content,
                   maxLinesPerBlob |-> work.maxLinesPerBlob,
                   blobs |-> splitFileContent(work.filePath, work.content,
                                              work.maxLinesPerBlob)]
             ELSE [op |-> "splitting", filePath |-> work.filePath,
                   content |-> work.content,
                   maxLinesPerBlob |-> work.maxLinesPerBlob]
  /\ UNCHANGED <<engineVars, mcpServer, chatView, retry>>

\* the batches a full reindex cuts out of the new blobs
Partition ==
  LET blobs == BlobsOfTwoFiles(work.contentA, work.contentB)
      hashes == HashesOf(blobs)
      blobNames == IF work.known = 0 THEN <<>> ELSE <<hashes[work.known]>>
      newHashes == NewHashes(hashes, blobNames)
      blobsToUpload == BlobsToUpload(newHashes, blobs)
  IN /\ work.op = "blobs"
     /\ work' = [op |-> "partition", blobs |-> blobs, blobNames |-> blobNames,
                 batchSize |-> config.batchSize,
                 newHashes |-> newHashes, blobsToUpload |-> blobsToUpload,
                 batches |->
                   [b \in 1..TotalBatches(blobsToUpload, config.batchSize) |->
                      [batchBlobs |->
                         BatchSlice(blobsToUpload, b - 1, config.batchSize),
                       expectedBatchNames |->
                         BatchSlice(newHashes, b - 1, config.batchSize)]]]
     /\ UNCHANGED <<engineVars, mcpServer, chatView, retry>>

NextPure == Split \/ Partition \/ HashPair

SpecPure == InitPure /\ [][NextPure]_vars

\* the calls of splitFileContent alone, each of them given the processor
\* until it returns: the function is synchronous and nothing else runs while
\* it is running
SpecSplitFair == InitPure /\ [][Split]_vars /\ WF_vars(Split)

\* ---------------------------------------------------------------- properties
\* a run of the engine is in flight
InFlight(p) == pc[p] \in {"read", "readdir", "collect", "upload"}

\* the union of the digest lists of a file map
DigestsOf(fileMap) ==
  UNION {Range(fileMap[i].hashes) : i \in 1..Len(fileMap)}

\* the batch whose reply the next step of the upload loop handles
PendingBatch(p) == BatchSlice(run[p].newHashes, run[p].batchIdx, config.batchSize)

\* a reply fails its batch: the request threw, or the reply does not list
\* exactly the digests of the blobs sent
ReplyFails(expected, reply) ==
  reply.kind # "data" \/ Range(reply.blob_names) # Range(expected)

\* the step taken handles the last reply of run p and ends the run
RunEndsAfterUpload(p) == pc[p] = "upload" /\ pc'[p] = "idle"

\* in the run that the step ends, some batch failed / every batch failed
SomeBatchFailed(p) ==
  run[p].failed # <<>> \/ ReplyFails(PendingBatch(p), returned'.reply)
EveryBatchFailed(p) ==
  /\ Len(run[p].failed) = run[p].batchIdx
  /\ ReplyFails(PendingBatch(p), returned'.reply)

\* the digests of the batches of run p that succeeded, the one the step
\* handles included
SucceededDigests(p) ==
  UNION {Range(BatchSlice(run[p].newHashes, k, config.batchSize)) :
           k \in {j \in 0..(run[p].batchIdx - 1) :
                    \A i \in 1..Len(run[p].failed) : run[p].failed[i] # j + 1}}
  \cup (IF ReplyFails(PendingBatch(p), returned'.reply) THEN {}
        ELSE Range(PendingBatch(p)))

\* C1: in every document the engine has committed, by whatever sequence of
\* full reindexes, single-file reindexes and removals with whatever batch
\* outcomes, blob_names lists exactly the digests of the lists of file_map:
\* no orphan, none missing, none twice.
C1_BlobNamesAreUnion ==
  /\ Range(store.blob_names) = DigestsOf(store.file_map)
  /\ Cardinality(Range(store.blob_names)) = Len(store.blob_names)

\* a full reindex with a failed batch has just committed a document that
\* holds both files
C1_Witness ==
  /\ returned.call = "indexProject"
  /\ returned.status = "partial_success"
  /\ FileMapKeys(store.file_map) = Paths

\* C2: a single-file reindex in which some upload batch failed ends with
\* the status error and leaves the whole document as it was.
C2_FailedFileRunCommitsNothing ==
  [][(RunEndsAfterUpload("file") /\ SomeBatchFailed("file"))
       => (returned'.status = "error" /\ store' = store)]_vars

\* a reindex of a file the document already holds has just ended in error
C2_Witness ==
  /\ returned.call = "indexFile"
  /\ returned.status = "error"
  /\ returned.reply.kind # "none"
  /\ FileMapHas(store.file_map, returned.file)

\* C3: the document a full reindex commits when some batches failed lists
\* only digests of successful batches and digests the loaded document had,
\* and every file it holds has the complete digest list of its candidate
\* blobs.
C3_NoTruncatedEntry ==
  [][\A p \in ProjectProcs :
       (RunEndsAfterUpload(p) /\ returned'.status = "partial_success")
         => /\ Range(store'.blob_names)
                 \subseteq (Range(run[p].store.blob_names) \cup SucceededDigests(p))
            /\ \A i \in 1..Len(store'.file_map) :
                 store'.file_map[i].hashes =
                   FileMapGet(run[p].nextFileMap, store'.file_map[i].path)]_vars

\* C4: a full reindex that finds no candidate digest in the loaded document
\* and whose upload batches all fail ends with the status error and writes
\* nothing.
C4_FirstIndexAllFailed ==
  [][\A p \in ProjectProcs :
       (/\ RunEndsAfterUpload(p)
        /\ Range(HashesOf(run[p].blobs)) \cap Range(run[p].store.blob_names) = {}
        /\ EveryBatchFailed(p))
         => (returned'.status = "error" /\ returned'.write = "none" /\ store' = store)]_vars

\* the first full reindex of the project has just ended in error after its
\* batches all failed, and the document is still empty
C4_Witness ==
  /\ returned.call = "indexProject"
  /\ returned.status = "error"
  /\ returned.reply.kind = "throw"
  /\ returned.write = "none"
  /\ store = EmptyStore

\* C5: at most one run of the engine is in flight at any time, whichever
\* trigger started it.
C5_SingleFlight == Cardinality({p \in Procs : InFlight(p)}) <= 1

\* the step taken ends the collection of run p and diffs the candidates
\* against the document
DiffStep(p) == pc[p] \in {"readdir", "collect"} /\ pc'[p] \in {"upload", "idle"}

\* C6: a full reindex that follows a fully successful one, with no change
\* of the project tree since that one began, uploads nothing and leaves the
\* document as the first run wrote it: the same blob_names in the same
\* order, the same file_map.
C6_SecondRunLeavesStoreIdentical ==
  [][\A p \in ProjectProcs :
       (DiffStep(p) /\ fullClean /\ run[p].clean)
         => (pc'[p] = "idle" /\ store' = store)]_vars

\* the candidate digests of run p the loaded document does not list, in
\* the order of collection
Unlisted(p) ==
  SelectSeq(Dedup([i \in 1..Len(run[p].blobs) |->
                     run[p].blobs[i].path \o run[p].blobs[i].content]),
            LAMBDA h : h \notin Range(run[p].store.blob_names))

\* the digests of the file, as it is on disk, that the document does not list
UnlistedOnDisk(f) ==
  LET fileBlobs == splitFileContent(f, files[f].content, config.maxLinesPerBlob)
  IN {fileBlobs[i].path \o fileBlobs[i].content : i \in 1..Len(fileBlobs)}
       \ Range(store.blob_names)

\* run p, waiting for the reply to a batch, has sent the start of the
\* unlisted digests up to that batch, and, if it is a full reindex, holds
\* every other candidate digest as existing
SentSoFar(p) ==
  LET unlisted == Unlisted(p)
      r == run[p]
  IN /\ unlisted # <<>>
     /\ r.sent = SubSeq(unlisted, 1,
                        Min((r.batchIdx + 1) * config.batchSize, Len(unlisted)))
     /\ p \in ProjectProcs
          => Range(r.existingHashes) =
               {BlobHash(r.blobs[i]) : i \in 1..Len(r.blobs)} \ Range(unlisted)

\* C7: a reindex sends, batch after batch, exactly the candidate blobs
\* whose digest the loaded document does not list: while it uploads, what
\* it has sent is the start of that list up to the batch in flight; it ends
\* only once the whole list is sent; a full reindex classifies every other
\* candidate digest as existing; and a run that goes to its commit without
\* an upload had no such blob.
C7_UploadsExactlyTheUnlisted ==
  [][\A p \in Procs :
       /\ pc[p] = "upload" => SentSoFar(p)
       /\ RunEndsAfterUpload(p) => run[p].sent = Unlisted(p)
       /\ (p \in ProjectProcs /\ pc[p] = "collect" /\ pc'[p] = "idle"
             /\ returned'.write # "none")
            => Range(HashesOf(CollectedBlobs(p))) \subseteq Range(store.blob_names)
       /\ (p = "file" /\ pc[p] = "read" /\ pc'[p] = "idle"
             /\ returned'.status = "success")
            => UnlistedOnDisk(run[p].file) = {}]_vars

\* after a full index of both files, the first file has changed and a
\* second full reindex is uploading: it has sent the digests of that file
\* and holds the digest of the other file as existing
C7_Witness ==
  /\ pc["auto"] = "upload"
  /\ FileMapKeys(run["auto"].store.file_map) = Paths
  /\ run["auto"].existingHashes = FileMapGet(run["auto"].store.file_map, FileB)
  /\ run["auto"].sent = FileMapGet(run["auto"].nextFileMap, FileA)

\* the step taken is a call of indexFile that takes the removal path for a
\* file the document holds
RemovalStep(f) ==
  /\ pc["file"] = "idle"
  /\ returned'.call = "indexFile"
  /\ returned'.file = f
  /\ files[f].ignored \/ ~files[f].present
  /\ FileMapHas(store.file_map, f)

\* C8: a single-file reindex of an indexed file that is now excluded or
\* gone writes the document without the entry of the file, with blob_names
\* the union of the remaining digest lists, and reports success (unless the
\* disk refuses the write).
C8_RemovalCommits ==
  [][\A f \in Paths :
       (RemovalStep(f) /\ returned'.write # "failed")
         => /\ returned'.status = "success"
            /\ returned'.write = "ok"
            /\ store'.file_map = SelectSeq(store.file_map, LAMBDA e : e.path # f)
            /\ Range(store'.blob_names) = DigestsOf(store'.file_map)
            /\ Cardinality(Range(store'.blob_names)) = Len(store'.blob_names)]_vars

\* a removal has just been committed for a file that is excluded or gone,
\* and the document still holds the other file
C8_Witness ==
  /\ returned.call = "indexFile"
  /\ returned.status = "success"
  /\ returned.write = "ok"
  /\ files[returned.file].ignored \/ ~files[returned.file].present
  /\ ~FileMapHas(store.file_map, returned.file)
  /\ store.file_map # <<>>

\* the step taken runs the callback of timer t
CallbackRuns(t) == t \in timers /\ timers' = timers \ {t} /\ saves' = saves

\* C9: the callback of a debounce timer runs only once the full delay has
\* passed since the last save of its file, and it is the only callback of
\* the burst of saves it closes.
C9_BurstCollapses ==
  [][\A t \in timers :
       CallbackRuns(t)
         => /\ quiet[t.file] = INDEX_DEBOUNCE_DELAY
            /\ burst[t.file].callbacks = 0]_vars

\* a burst of at least two saves of one file is over and one callback has
\* run for it
C9_Witness ==
  \E f \in Paths :
    /\ burst[f].saves >= 2
    /\ burst[f].callbacks = 1
    /\ indexDebounceTimers[f] = NoTimer

\* C10: a timer callback that runs while a run of the engine is in flight
\* makes no call of indexFile.
C10_DroppedWhileInFlight ==
  [][\A t \in timers :
       (CallbackRuns(t) /\ \E p \in Procs : InFlight(p))
         => (pc'["file"] = pc["file"] /\ returned'.call # "indexFile")]_vars

\* C11: when the write of the document fails at commit, the document stays
\* as it was, a full reindex returns the status error and a single-file
\* reindex or removal throws to its caller: no run reports success or
\* partial_success.
C11_WriteFailureIsReported ==
  [][returned'.write = "failed"
       => /\ store' = store
          /\ returned'.call = "indexProject" => returned'.status = "error"
          /\ returned'.call = "indexFile" => returned'.status = "thrown"]_vars

\* a full reindex whose batches all succeeded has just returned an error
\* because the document could not be written
C11_Witness ==
  /\ returned.call = "indexProject"
  /\ returned.write = "failed"
  /\ returned.reply.kind = "data"
  /\ returned.status = "error"

\* the failures the retry policy may retry: connection refused, timeout,
\* DNS resolution failure, a 5xx response
TransientFailure(f) ==
  \/ f.code \in {"ECONNREFUSED", "ETIMEDOUT", "ENOTFOUND"}
  \/ f.status \in 500..599

\* the failures the retry policy must never retry: 401, 403, a certificate
\* that cannot be validated
FatalFailure(f) ==
  \/ f.status \in {401, 403}
  \/ f.code \in {"UNABLE_TO_VERIFY_LEAF_SIGNATURE", "CERT_HAS_EXPIRED",
                 "ERR_TLS_CERT_ALTNAME_INVALID"}
  \/ f.certificate

\* C12: retryRequest invokes the operation at most maxRetries times; every
\* invocation but the first follows a failure that is transient; and once
\* maxRetries invocations have failed it has thrown, without sleeping or
\* invoking the operation again.
C12_BoundedRetries ==
  /\ retry.calls <= retry.maxRetries
  /\ Len(retry.history) <= retry.calls
  /\ \A k \in 1..(retry.calls - 1) : TransientFailure(retry.history[k])
  /\ (retry.pc # "idle" /\ Len(retry.history) = retry.maxRetries)
       => (retry.pc = "threw" /\ retry.calls = retry.maxRetries)

\* as many transient failures in a row as attempts were allowed, at least
\* two: retryRequest has thrown
C12_Witness ==
  /\ retry.pc = "threw"
  /\ retry.maxRetries >= 2
  /\ Len(retry.history) = retry.maxRetries
  /\ \A k \in 1..Len(retry.history) : TransientFailure(retry.history[k])

\* C13: a 401, a 403 or a certificate failure ends retryRequest at the
\* attempt at which it occurs, whatever came before: it is the last failure
\* of the call, retryRequest has thrown, and no delay was taken for it.
C13_FatalEndsAtOnce ==
  \A k \in 1..Len(retry.history) :
    FatalFailure(retry.history[k])
      => /\ k = Len(retry.history)
         /\ retry.pc = "threw"
         /\ retry.calls = k
         /\ Len(retry.delays) = k - 1

\* after a transient failure and a retry, the remote has rejected the
\* credential and retryRequest has thrown
C13_Witness ==
  /\ retry.pc = "threw"
  /\ Len(retry.history) >= 2
  /\ retry.history[Len(retry.history)].status \in {401, 403}
  /\ TransientFailure(retry.history[1])

\* C15 as claimed: the delay taken before attempt k, counting attempts from
\* 0, is retryDelay * 2^k (delays[k] is the delay before attempt k).
C15_DelayBeforeAttemptK ==
  \A k \in 1..Len(retry.delays) : retry.delays[k] = retry.retryDelay * (2 ^ k)

\* C15, amended: the delay taken after the failure of attempt k, counting
\* attempts from 0, that is before attempt k + 1, is retryDelay * 2^k; one
\* delay is taken before every attempt but the first, and none else.
C15_DelayAfterAttemptK ==
  /\ \A k \in 1..Len(retry.delays) :
       retry.delays[k] = retry.retryDelay * (2 ^ (k - 1))
  /\ Len(retry.delays) = IF retry.pc = "sleep" THEN retry.calls
                         ELSE IF retry.calls = 0 THEN 0 ELSE retry.calls - 1

\* the operation is being invoked for the third time, after two delays
C15_Witness ==
  /\ retry.pc = "fn"
  /\ retry.calls = 3
  /\ Len(retry.delays) = 2

\* the step taken handles the reply to the batch run p was waiting for
ReplyHandled(p) ==
  pc[p] = "upload" /\ (pc'[p] = "idle" \/ run'[p].batchIdx # run[p].batchIdx)

\* C14: when the remote rejects the credential for a batch, the run ends
\* there with an error: no further batch is sent, and the outcome is never
\* success or partial_success.
C14_RejectionEndsRun ==
  [][\A p \in Procs :
       (ReplyHandled(p) /\ returned'.reply.kind = "rejected")
         => (pc'[p] = "idle" /\ returned'.status \in {"error", "thrown"})]_vars

\* C16: a batch counts as uploaded only if the digests the remote returns
\* are, as a set, the digests sent: then the returned digests join the
\* uploaded ones and the batch is not recorded as failed; on any other
\* reply the batch is recorded as failed and the uploaded digests stay as
\* they were; either way the loop moves on to the next batch, and what a
\* full reindex commits lists the existing digests, the uploaded ones and
\* the digests of its last batch only if that batch's reply matched.
C16_OnlyVerifiedBatchesCount ==
  [][\A p \in Procs :
       ReplyHandled(p)
         => LET reply == returned'.reply
                fails == ReplyFails(PendingBatch(p), reply)
            IN /\ pc'[p] = "upload"
                    => /\ run'[p].batchIdx = run[p].batchIdx + 1
                       /\ run'[p].failed =
                            IF fails THEN Append(run[p].failed, run[p].batchIdx + 1)
                            ELSE run[p].failed
                       /\ p \in ProjectProcs
                            => run'[p].uploaded =
                                 IF fails THEN run[p].uploaded
                                 ELSE run[p].uploaded \o reply.blob_names
               /\ (pc'[p] = "idle" /\ p \in ProjectProcs /\ returned'.write = "ok")
                    => /\ Range(store'.blob_names) =
                            Range(run[p].existingHashes) \cup Range(run[p].uploaded)
                              \cup (IF fails THEN {} ELSE Range(PendingBatch(p)))
                       /\ (returned'.status = "success")
                            = (run[p].failed = <<>> /\ ~fails)]_vars

\* a full reindex has just recorded its first batch as failed, and nothing
\* as uploaded, on a reply that lists a digest it did not send
C16_Witness ==
  /\ pc["auto"] = "upload"
  /\ BogusHash \in Range(returned.reply.blob_names)
  /\ run["auto"].failed = <<1>>
  /\ run["auto"].uploaded = <<>>

\* the concatenation of the batches 0..last of run p
RECURSIVE BatchesThrough(_, _)
BatchesThrough(p, last) ==
  IF last < 0 THEN <<>>
  ELSE BatchesThrough(p, last - 1)
         \o SubSeq(run[p].newHashes, last * config.batchSize + 1,
                   Min((last + 1) * config.batchSize, Len(run[p].newHashes)))

\* C17: every batch of the partition is attempted exactly once, in order,
\* whatever the earlier batches came to: while a run uploads, the requests
\* it has sent are the batches 0..batchIdx, one after the other; a reply,
\* good or bad, is followed by the next batch; the run leaves the loop only
\* after the reply to the last batch; and the list of failed batches holds
\* exactly the batches answered so far whose reply did not match.
C17_EveryBatchAttemptedOnce ==
  [][\A p \in Procs :
       /\ pc[p] = "upload"
            => /\ run[p].batchIdx < CeilDiv(Len(run[p].newHashes), config.batchSize)
               /\ run[p].sent = BatchesThrough(p, run[p].batchIdx)
               /\ \A i \in 1..Len(run[p].failed) :
                    /\ run[p].failed[i] \in 1..run[p].batchIdx
                    /\ \A j \in 1..(i - 1) : run[p].failed[j] < run[p].failed[i]
       /\ ReplyHandled(p)
            => /\ pc'[p] = "upload" => run'[p].batchIdx = run[p].batchIdx + 1
               /\ pc'[p] = "idle"
                    => (run[p].batchIdx + 1) * config.batchSize >= Len(run[p].newHashes)
               /\ pc'[p] = "upload"
                    => ((run[p].batchIdx + 1) \in Range(run'[p].failed))
                         = ReplyFails(PendingBatch(p), returned'.reply)]_vars

\* a full reindex whose first batch failed is waiting for the reply to its
\* second batch
C17_Witness ==
  /\ pc["auto"] = "upload"
  /\ run["auto"].batchIdx = 1
  /\ run["auto"].failed = <<1>>
  /\ Len(run["auto"].sent) > config.batchSize

\* C18: for every list of new blobs and every batchSize >= 1 the upload cuts
\* the list into consecutive batches of at most batchSize blobs: the new
\* blobs are the collected blobs whose digest the loaded document does not
\* list, every one of them is sent in exactly one batch, the batches follow
\* the order of the list, and the digests expected of a batch are exactly
\* the digests of the blobs sent in it
C18_BatchesPartitionTheNewBlobs ==
  work.op = "partition" =>
    LET sent == Flatten([b \in 1..Len(work.batches) |-> work.batches[b].batchBlobs])
    IN /\ work.batchSize >= 1
       /\ sent = work.blobsToUpload
       /\ \A i, j \in 1..Len(sent) : sent[i] = sent[j] => i = j
       /\ Range(sent) = {work.blobs[i] : i \in {k \in 1..Len(work.blobs) :
                           BlobHash(work.blobs[k]) \notin Range(work.blobNames)}}
       /\ \A b \in 1..Len(work.batches) :
            /\ Len(work.batches[b].batchBlobs) \in 1..work.batchSize
            /\ work.batches[b].expectedBatchNames =
                 [i \in 1..Len(work.batches[b].batchBlobs) |->
                    BlobHash(work.batches[b].batchBlobs[i])]

\* three blobs are new and one is known, and the new ones go out in a full
\* batch of two followed by a batch of one
C18_Witness ==
  /\ work.op = "partition"
  /\ Len(work.blobNames) = 1
  /\ work.batchSize = 2
  /\ Len(work.batches) = 2
  /\ Len(work.batches[2].batchBlobs) = 1

\* the contents of a list of blobs, joined in order
JoinedContent(blobs) == Flatten([i \in 1..Len(blobs) |-> blobs[i].content])

\* C19: for all content and all thresholds splitFileContent is lossless:
\* the contents of the blobs it returns, joined in order, are the content
\* it was given, every line terminator and a last line without terminator
\* included (the result is a function of the content, the path and the
\* threshold alone, so that a second call returns the same list)
C19_SplitIsLossless ==
  work.op = "split" => JoinedContent(work.blobs) = work.content

\* the positions of a content at which a line ends: behind a line feed,
\* behind a carriage return that no line feed follows, and at the last
\* character
LineEnds(content) ==
  {i \in 1..Len(content) :
     \/ content[i] = "\n"
     \/ content[i] = "\r" /\ ~(i < Len(content) /\ content[i + 1] = "\n")
     \/ i = Len(content)}

\* the position at which line k ends (0 for k = 0)
EndOfLine(content, k) ==
  IF k = 0 THEN 0
  ELSE CHOOSE e \in LineEnds(content) :
         Cardinality({d \in LineEnds(content) : d <= e}) = k

\* the name of chunk i of n, for fewer than ten chunks
ChunkName(filePath, i, n) ==
  filePath \o <<"#", "c", "h", "u", "n", "k", DigitChars[i + 1],
               "o", "f", DigitChars[n + 1]>>

C21_SameDigestSameBlob ==
  (work.op = "digests" /\ work.digests[1] = work.digests[2])
    => work.first = work.second

\* C22: an engine operation hands back an outcome and throws nothing to its
\* caller, unless the write of the index document failed (in a removal of
\* a path or in the commit of a single-file reindex); a file that cannot be
\* read or a failed upload in a single-file reindex is a returned outcome
C22_ThrowsOnlyOnFailedWrite ==
  returned.status = "thrown" => returned.write = "failed"

\* C23: a file that cannot be read and a directory that cannot be listed
\* are skipped, and the collection pass is never aborted: a full reindex
\* that has collected the blobs of some file does not end its collection
\* with an error and nothing written
C23_CollectionNeverAborted ==
  [][\A p \in ProjectProcs :
       (pc[p] = "collect" /\ pc'[p] # "collect" /\ CollectedBlobs(p) # <<>>)
         => ~(returned'.status = "error" /\ returned'.write = "none")]_vars

\* a run of the full reindex that searchCodebase started is in flight
Bootstrapping == pc["search"] \in {"readdir", "collect", "upload"}

\* C24: searchCodebase called while the document lists no digest starts a
\* full reindex and sends no retrieval request before that reindex has
\* ended; when the reindex ends with status error, the search ends with
\* the error of the reindex and no retrieval request is sent
C24_BootstrapBeforeQuery ==
  [][/\ (pc["search"] = "idle" /\ pc'["search"] # "idle" /\ store.blob_names = <<>>)
          => Bootstrapping'
     /\ (pc["search"] # "query" /\ pc'["search"] = "query" /\ ~Bootstrapping)
          => (pc["search"] = "idle" /\ store.blob_names # <<>>)
     /\ (Bootstrapping /\ pc'["search"] = "query")
          => (returned'.call = "indexProject" /\ returned'.proc = "search"
              /\ returned'.status \in {"success", "partial_success"})
     /\ (Bootstrapping /\ returned'.proc = "search" /\ returned'.status = "error")
          => (pc'["search"] = "idle"
              /\ returned'.answer = "Error: Failed to index project")]_vars

\* the reindex of a search has ended in error after an upload, and the
\* search has handed the error back
C24_Witness ==
  /\ returned.call = "indexProject"
  /\ returned.proc = "search"
  /\ returned.status = "error"
  /\ returned.reply.kind # "none"
  /\ returned.answer = "Error: Failed to index project"
  /\ pc["search"] = "idle"

C26_SuccessIffNoBatchFailed ==
  [][\A p \in ProjectProcs :
       (returned'.call = "indexProject" /\ returned'.proc = p
        /\ returned'.write = "ok")
         => IF pc[p] = "upload" /\ SomeBatchFailed(p)
            THEN returned'.status = "partial_success"
            ELSE returned'.status = "success"]_vars

\* a full reindex has uploaded every batch and reports success
C26_Witness ==
  /\ returned.call = "indexProject"
  /\ returned.write = "ok"
  /\ returned.status = "success"
  /\ returned.reply.kind = "data"

\* the digest list of file f as it is on disk
FreshDigests(f) ==
  LET fileBlobs == splitFileContent(f, files[f].content, config.maxLinesPerBlob)
  IN [i \in 1..Len(fileBlobs) |-> fileBlobs[i].path \o fileBlobs[i].content]

\* the single-file reindex has read its file, and the document holds for
\* the path exactly the digest list of what was read
ReadFindsNoChange ==
  LET f == run["file"].file
  IN /\ pc["file"] = "read" /\ pc'["file"] # "read"
     /\ files[f].present
     /\ FileMapHas(store.file_map, f)
     /\ FileMapGet(store.file_map, f) = FreshDigests(f)

\* C27: a single-file reindex that computes for its file the digest list
\* the document already holds for the path, digest for digest in the same
\* order, sends no upload request, does not write the document and ends
\* with status success
C27_UnchangedFileIsNoOp ==
  [][ReadFindsNoChange
       => /\ pc'["file"] = "idle"
          /\ returned'.call = "indexFile"
          /\ returned'.status = "success"
          /\ returned'.write = "none"
          /\ store' = store]_vars

\* a file of two chunks that the document holds is reindexed unchanged
C27_Witness ==
  /\ returned.call = "indexFile"
  /\ returned.status = "success"
  /\ returned.write = "none"
  /\ files[returned.file].present
  /\ FileMapHas(store.file_map, returned.file)
  /\ Len(FileMapGet(store.file_map, returned.file)) = 2
  /\ FileMapGet(store.file_map, returned.file) = FreshDigests(returned.file)

\* the step taken ends a single-file reindex with a committed document
FileRunCommits ==
  /\ pc["file"] \in {"read", "upload"}
  /\ returned'.call = "indexFile"
  /\ returned'.status = "success"
  /\ returned'.write = "ok"

\* the digest list the document holds for a path (none: the empty list)
EntryOf(fileMap, f) == IF FileMapHas(fileMap, f) THEN FileMapGet(fileMap, f) ELSE <<>>

\* C28: a successful single-file reindex changes only the entry of its file
\* in file_map: that entry becomes the digest list of the content read, in
\* order, and every other path has after the commit the entry it had
\* before it
C28_OnlyOwnEntryChanges ==
  [][FileRunCommits
       => /\ EntryOf(store'.file_map, returned'.file)
               = (IF pc["file"] = "read" THEN FreshDigests(returned'.file)
                  ELSE run["file"].nextHashes)
          /\ \A g \in Paths \ {returned'.file} :
               /\ FileMapHas(store'.file_map, g) = FileMapHas(store.file_map, g)
               /\ EntryOf(store'.file_map, g) = EntryOf(store.file_map, g)]_vars

\* no timer is pending and no run is in flight
Quiescent == timers = {} /\ \A p \in Procs : pc[p] = "idle"

\* C29: when the saves have stopped, every debounce timer has fired and
\* every reconciliation has ended, the remote having answered every upload
\* as it should, the document holds for every saved file that is on disk
\* and indexable the digest list of its current content
C29_IndexFollowsSaves ==
  Quiescent =>
    \A f \in Paths :
      (burst[f].saves > 0 /\ files[f].present /\ ~files[f].ignored)
        => EntryOf(store.file_map, f) = FreshDigests(f)

\* the candidate digest list of file f among the collected blobs
CandidateList(blobs, f) ==
  LET own == SelectSeq(blobs, LAMBDA b : b.sourcePath = f)
  IN [i \in 1..Len(own) |-> own[i].path \o own[i].content]

\* the blobs the full reindex p has collected when the step taken commits
BlobsAtCommit(p) == IF pc[p] = "upload" THEN run[p].blobs ELSE CollectedBlobs(p)

\* the digests that are available when the step taken commits: the
\* candidates the loaded document lists and those of the batches that
\* succeeded
AvailableAtCommit(p) ==
  LET candidates == {BlobsAtCommit(p)[i].path \o BlobsAtCommit(p)[i].content :
                       i \in 1..Len(BlobsAtCommit(p))}
  IN IF pc[p] = "upload"
     THEN (candidates \cap Range(run[p].store.blob_names)) \cup SucceededDigests(p)
     ELSE candidates \cap Range(store.blob_names)

\* C30: in the document a full reindex commits, the digest list of a file
\* is its candidate list without the digests that are not available, the
\* others in their order, and a file has an entry exactly when that list is
\* not empty
C30_CommitFiltersCandidates ==
  [][\A p \in ProjectProcs :
       (returned'.call = "indexProject" /\ returned'.proc = p
        /\ returned'.write = "ok")
         => \A f \in Paths :
              LET filtered == SelectSeq(CandidateList(BlobsAtCommit(p), f),
                                        LAMBDA h : h \in AvailableAtCommit(p))
              IN /\ FileMapHas(store'.file_map, f) <=> filtered # <<>>
                 /\ EntryOf(store'.file_map, f) = filtered]_vars

\* a full reindex has committed one of the two digests of a file of two
\* chunks
C30_Witness ==
  /\ returned.call = "indexProject"
  /\ returned.write = "ok"
  /\ \E f \in Paths :
       /\ files[f].present
       /\ Len(FreshDigests(f)) = 2
       /\ Len(EntryOf(store.file_map, f)) = 1
       /\ EntryOf(store.file_map, f)[1] \in Range(FreshDigests(f))

\* the stages of a full reindex that goes through, in their order
StageOrder == <<"hashing", "uploading", "saving", "complete">>

\* the moves of a full reindex from one phase to the next: collecting (the
\* listing, then the reads), uploading (entered with hashing and diffing
\* done), and the end, reached from any phase
PhaseMoves ==
  {<<"idle", "readdir">>, <<"readdir", "collect">>, <<"readdir", "idle">>,
   <<"collect", "upload">>, <<"collect", "idle">>, <<"upload", "idle">>}

\* C31: a full reindex goes through collecting, hashing and diffing,
\* uploading and committing in that order and ends once, done or failed:
\* the stages it has reported are a start of hashing, uploading, saving,
\* complete, followed by error or not; error is the last report of a run
\* that ends with status error, complete the last report of a run that ends
\* with success or partial_success, and no run reports both
C31_StagesInOrder ==
  [][/\ pc'["auto"] # pc["auto"] => <<pc["auto"], pc'["auto"]>> \in PhaseMoves
     /\ returned'.call = "indexProject"
          => LET st == returned'.stages
                 n == Len(st)
             IN /\ n > 0
                /\ \A k \in 1..(n - 1) : st[k] = StageOrder[k]
                /\ st[n] \in {"complete", "error"}
                /\ st[n] = "complete" => n = Len(StageOrder)
                /\ st[n] = "error" => \A k \in 1..(n - 1) : st[k] # "complete"
                /\ st[n] = "complete"
                     <=> returned'.status \in {"success", "partial_success"}
                /\ st[n] = "error" <=> returned'.status = "error"
                /\ pc'["auto"] = "idle"]_vars

\* a full reindex has failed at the write of the document, after saving
C31_Witness ==
  /\ returned.call = "indexProject"
  /\ returned.stages = <<"hashing", "uploading", "saving", "error">>

\* C32: from the empty document on, whatever full and single-file reindexes
\* run one after the other with whatever batch outcomes, blob_names only
\* ever lists digests the remote has returned in a reply that passed the
\* verification: a commit adds to the digests the document listed before
\* none but those of the batches of its own run that succeeded
C32_OnlyAcknowledgedDigests ==
  [][store' # store
       => \E p \in Procs :
            /\ returned'.proc = p
            /\ Range(store'.blob_names)
                 \subseteq Range(store.blob_names)
                            \cup (IF pc[p] = "upload" THEN SucceededDigests(p)
                                  ELSE {})]_vars

\* a full reindex in which a batch failed has committed a document that
\* lists one digest, while the files on disk have more
C32_Witness ==
  /\ returned.call = "indexProject"
  /\ returned.status = "partial_success"
  /\ returned.write = "ok"
  /\ Len(store.blob_names) = 1
  /\ \A f \in Paths : files[f].present /\ ~files[f].ignored


\* C33: a retrieval request goes out only once a full reindex has written
\* the document: whenever searchCodebase moves on to its query, by finding
\* digests in the document or at the end of its own bootstrap reindex, some
\* full reindex has committed.
C33_QueryOnlyAfterFullReindex ==
  [][(pc["search"] # "query" /\ pc'["search"] = "query") => fullIndexed']_vars


\* C34: a single-file commit, update or removal, drops from blob_names only
\* digests that no entry but the previous entry of that file refers to: every
\* other digest of the loaded blob_names is still there after the commit,
\* also when the document was loaded from the legacy bare array.
C34_SingleFileCommitKeepsOthers ==
  [][(returned'.call = "indexFile" /\ returned'.write = "ok")
       => \A d \in Range(store.blob_names) :
            \/ d \in Range(store'.blob_names)
            \/ /\ d \in Range(EntryOf(store.file_map, returned'.file))
               /\ \A i \in 1..Len(store.file_map) :
                    store.file_map[i].path # returned'.file
                      => d \notin Range(store.file_map[i].hashes)]_vars


\* C35: isIndexing is true exactly while an indexFile started by a debounce
\* callback is in flight: the callback sets it before the call, and it is
\* false again after every way out (success, error result, thrown error,
\* no workspace folder).
C35_FlagWhileIndexFileRuns == isIndexing <=> InFlight("file")

C35_Witness ==
  /\ returned.call = "indexFile"
  /\ returned.status = "thrown"
  /\ ~isIndexing
  /\ burst[returned.file].callbacks > 0


\* C36: every run comes to an end whatever numbers the settings hand over
\* as batchSize and maxLinesPerBlob, 0 included: in particular every call
\* of splitFileContent a run makes returns its blobs.
C36_EverySplitReturns == (work.op = "content") ~> (work.op = "split")


\* C37: a full reindex in which every batch succeeds, run after a
\* partial_success run with the tree unchanged throughout, commits what one
\* fully successful reindex commits: blob_names is, as a set, the digests
\* of every blob of the tree, and file_map gives every indexed file its
\* digests in chunk order and has no other entry.
C37_HealedStoreIsTheFullStore ==
  (healing = "healed" \/ fullClean)
    => LET indexed == {f \in Paths : files[f].present /\ ~files[f].ignored}
       IN /\ Range(store.blob_names)
               = UNION {Range(FreshDigests(f)) : f \in indexed}
          /\ FileMapKeys(store.file_map) = indexed
          /\ \A f \in indexed : FileMapGet(store.file_map, f) = FreshDigests(f)

C37_Witness ==
  /\ healing = "healed"
  /\ returned.call = "indexProject"
  /\ returned.status = "success"
  /\ returned.stats.existing_blobs > 0
  /\ returned.stats.new_blobs > 0


\* C38: in every success or partial_success result of a full reindex
\* total_blobs is existing_blobs plus new_blobs, whatever verified replies
\* the batches got, one that repeats a digest included.
C38_TotalIsExistingPlusNew ==
  (returned.call = "indexProject"
     /\ returned.status \in {"success", "partial_success"})
    => returned.stats.total_blobs
         = returned.stats.existing_blobs + returned.stats.new_blobs


\* C39: MCPServer.start is idempotent: a second start() made before the
\* listen callback of the first has set isRunning makes no second HTTP
\* server, so there is never more than one that is not closed, and once
\* stop() has reset httpServer none is left listening.
C39_StartIsIdempotent ==
  /\ Cardinality({i \in 1..Len(mcpServer.listeners) :
                    mcpServer.listeners[i].state # "closed"}) <= 1
  /\ mcpServer.httpServer = 0
       => \A i \in 1..Len(mcpServer.listeners) :
            mcpServer.listeners[i].state # "listening"

\* C40: once no request of the chat view is under way, the message list
\* holds exactly one assistant reply for every user message submitted and
\* no loading placeholder, also when a message was submitted while an
\* earlier one was being processed.
C40_OneReplyPerMessage ==
  (chatView.inFlight = {} /\ chatView.posted = <<>>)
    => /\ \A n \in 1..chatView.submitted :
            Cardinality({i \in 1..Len(chatView.messages) :
                           chatView.messages[i]
                             = [role |-> "assistant", of |-> n]}) = 1
       /\ \A i \in 1..Len(chatView.messages) :
            chatView.messages[i].role # "loading"

====
